---------------------------- MODULE Spec2Model ----------------------------
(***************************************************************************)
(* Model of the proposer API of the relay (package proposer) and of the    *)
(* helpers of package common it uses.                                       *)
(*                                                                         *)
(* The specifications share the variables:                                 *)
(*   ApiSpec   the two stateless endpoints, get-header and get-payload     *)
(*   Spec      the life cycle (Start, the background refresh task, the     *)
(*             context) and the register endpoint over the datastore       *)
(*   LifeSpec  the life cycle alone, with Stop, under fair scheduling      *)
(*   ConcSpec  two register requests served concurrently                   *)
(*   CtorSpec  the constructors of packages proposer and common            *)
(***************************************************************************)
EXTENDS Integers, Sequences, FiniteSets, TLC

VARIABLES
    apiReq,           \* the last get-header / get-payload request served
    apiResp,          \* the response written for it
    started,          \* outcome of ProposerAPI.Start: "no", "ok", "err"
    ctxDone,          \* api.ctx has been cancelled
    bg,               \* the goroutine of Start: "none", "waiting", "refreshing", "exited"
    tickPending,      \* a tick is buffered in the ticker's channel
    ticks,            \* ticks delivered by the ticker so far
    bgRefreshes,      \* RefreshKnownValidators calls made by the goroutine
    lastRefresh,      \* how the latest RefreshKnownValidators returned: "none", "ok", "err"
    sel,              \* the case the goroutine's select is committed to: "none", "done", "tick"
    bgFetched,        \* the refresh the goroutine has in flight
    knownPrior,       \* the cached set when the refresh in flight began
    stopped,          \* ProposerAPI.Stop has been called
    serving,          \* the owner of the API has begun to serve requests
    stats,            \* the request counters of common.EpochSummary
    call,             \* the last constructor call
    ret,              \* what it returned
    knownValidators,  \* datastore: the cached known-validator set
    registrations,    \* datastore: stored registration timestamp per key (0: none)
    reg               \* the register request each handler is serving

apiVars == <<apiReq, apiResp>>
lifeVars == <<started, ctxDone, bg, tickPending, ticks, bgRefreshes, lastRefresh,
              sel, bgFetched, knownPrior, stopped, serving>>
ctorVars == <<stats, call, ret>>
dsVars == <<knownValidators, registrations>>
vars == <<apiReq, apiResp, started, ctxDone, bg, tickPending, ticks, bgRefreshes,
          lastRefresh, sel, bgFetched, knownPrior, stopped, serving, stats, call, ret,
          knownValidators, registrations, reg>>

-----------------------------------------------------------------------------
(* HTTP statuses and the error texts of package common                      *)

StatusOK == 200
StatusNoContent == 204
StatusBadRequest == 400
StatusNotFound == 404
StatusInternalServerError == 500

ErrInvalidSlot == "invalid slot"
ErrInvalidPubkey == "invalid pubkey"
ErrInvalidHash == "invalid hash"
ErrInvalidSignature == "invalid signature"

\* common.NilResponse encoded as JSON
NilResponse == "{}"

\* a response body is the sequence of the chunks written to it

NoResponse == [status |-> 0, body |-> <<>>, handler |-> "none"]

\* BaseAPI.RespondError: the status and a JSON error carrying the message
RespondError(code, msg, h) == [status |-> code, body |-> <<msg>>, handler |-> h]

\* BaseAPI.RespondOK: 200 and the JSON encoding of the value
RespondOK(val, h) == [status |-> StatusOK, body |-> <<val>>, handler |-> h]

\* BaseAPI.RespondOKEmpty: 200 and no body
RespondOKEmpty(h) == [status |-> StatusOK, body |-> <<>>, handler |-> h]

-----------------------------------------------------------------------------
(* Strings are sequences of one-character strings.                          *)

Digits == <<"0", "1", "2", "3", "4", "5", "6", "7", "8", "9">>

\* the value of a decimal digit, -1 for any other character
DigitVal(c) ==
    IF \E i \in 1..10 : Digits[i] = c
    THEN (CHOOSE i \in 1..10 : Digits[i] = c) - 1
    ELSE -1

HexLetters == {"a", "b", "c", "d", "e", "f", "A", "B", "C", "D", "E", "F"}

IsDigit(c) == DigitVal(c) >= 0
IsHex(c) == IsDigit(c) \/ c \in HexLetters

\* the route pattern [0-9]+
MatchDigits(s) == Len(s) >= 1 /\ \A i \in 1..Len(s) : IsDigit(s[i])

\* the route pattern 0x[a-fA-F0-9]+
MatchHex(s) ==
    /\ Len(s) >= 3
    /\ s[1] = "0"
    /\ s[2] = "x"
    /\ \A i \in 3..Len(s) : IsHex(s[i])

\* pathGetHeader: the router dispatches to handleGetHeader only a path whose
\* three variables match their patterns
RouteGetHeader(slot, parentHash, pubkey) ==
    MatchDigits(slot) /\ MatchHex(parentHash) /\ MatchHex(pubkey)

-----------------------------------------------------------------------------
(* strconv.ParseUint(s, 10, 64).  A uint64 is four 16-bit limbs, least      *)
(* significant first, so that the arithmetic keeps its 64-bit width.        *)

LimbBase == 65536

U64Zero == <<0, 0, 0, 0>>

\* maxUint64/10 + 1 = 1844674407370955162 = 0x1999 9999 9999 999A
U64Cutoff == <<39322, 39321, 39321, 6553>>

U64Less(a, b) ==
    \E i \in 1..4 :
        /\ a[i] < b[i]
        /\ \A j \in (i+1)..4 : a[j] = b[j]

\* n * 10 mod 2^64
U64Mul10(n) ==
    LET p1 == n[1] * 10
        p2 == n[2] * 10 + p1 \div LimbBase
        p3 == n[3] * 10 + p2 \div LimbBase
        p4 == n[4] * 10 + p3 \div LimbBase
    IN  <<p1 % LimbBase, p2 % LimbBase, p3 % LimbBase, p4 % LimbBase>>

\* n + d mod 2^64, d a digit
U64AddDigit(n, d) ==
    LET s1 == n[1] + d
        s2 == n[2] + s1 \div LimbBase
        s3 == n[3] + s2 \div LimbBase
        s4 == n[4] + s3 \div LimbBase
    IN  <<s1 % LimbBase, s2 % LimbBase, s3 % LimbBase, s4 % LimbBase>>

RECURSIVE ParseUintLoop(_, _, _)
ParseUintLoop(s, i, n) ==
    IF i > Len(s) THEN [err |-> "nil", val |-> n]
    ELSE LET d == DigitVal(s[i]) IN
         IF d < 0 THEN [err |-> "syntax", val |-> U64Zero]
         ELSE IF ~U64Less(n, U64Cutoff) THEN [err |-> "range", val |-> U64Zero]
         ELSE LET m  == U64Mul10(n)
                  n1 == U64AddDigit(m, d)
              IN  IF U64Less(n1, m) THEN [err |-> "range", val |-> U64Zero]
                  ELSE ParseUintLoop(s, i + 1, n1)

ParseUint(s) ==
    IF Len(s) = 0 THEN [err |-> "syntax", val |-> U64Zero]
    ELSE ParseUintLoop(s, 1, U64Zero)

-----------------------------------------------------------------------------
(* http.ResponseWriter as handleGetHeader drives it.  A writer is either    *)
(* the server's (it refuses a body for a status that allows none) or a      *)
(* recorder (it stores whatever is written).                                *)

WriterKinds == {"server", "recorder"}

NewWriter(kind) == [kind |-> kind, status |-> 0, body |-> <<>>]

\* the first WriteHeader decides the status, a later one is ignored
WriteHeader(w, code) ==
    IF w.status = 0 THEN [w EXCEPT !.status = code] ELSE w

BodyAllowedForStatus(code) ==
    ~(code \in 100..199 \/ code = StatusNoContent \/ code = 304)

\* Write: an implicit WriteHeader(200), then the data, or an error
Write(w, data) ==
    LET w1 == WriteHeader(w, StatusOK) IN
    IF w1.kind = "server" /\ ~BodyAllowedForStatus(w1.status)
    THEN [w |-> w1, err |-> "http: request method or response status code does not allow body"]
    ELSE [w |-> [w1 EXCEPT !.body = Append(@, data)], err |-> "nil"]

\* http.Error(w, msg, code)
HttpError(w, msg, code) == Write(WriteHeader(w, code), msg).w

Sent(w, h) == [status |-> w.status, body |-> w.body, handler |-> h]

-----------------------------------------------------------------------------
(* get-header                                                               *)

PubkeyHexLen == 98
HashHexLen == 66

\* handleGetHeader with the hash checked before the pubkey
handleGetHeader_HashFirst(slot, parentHashHex, pubkey, w) ==
    IF ParseUint(slot).err # "nil"
    THEN RespondError(StatusBadRequest, ErrInvalidSlot, "getHeader")
    ELSE IF Len(parentHashHex) # HashHexLen
    THEN RespondError(StatusBadRequest, ErrInvalidHash, "getHeader")
    ELSE IF Len(pubkey) # PubkeyHexLen
    THEN RespondError(StatusBadRequest, ErrInvalidPubkey, "getHeader")
    ELSE Sent(WriteHeader(w, StatusNoContent), "getHeader")

\* handleGetHeader rejecting a slot only for its syntax
handleGetHeader_SyntaxOnly(slot, parentHashHex, pubkey, w) ==
    IF ParseUint(slot).err = "syntax"
    THEN RespondError(StatusBadRequest, ErrInvalidSlot, "getHeader")
    ELSE IF Len(pubkey) # PubkeyHexLen
    THEN RespondError(StatusBadRequest, ErrInvalidPubkey, "getHeader")
    ELSE IF Len(parentHashHex) # HashHexLen
    THEN RespondError(StatusBadRequest, ErrInvalidHash, "getHeader")
    ELSE Sent(WriteHeader(w, StatusNoContent), "getHeader")

\* handleGetHeader encoding the body before it writes the status
handleGetHeader_BodyFirst(slot, parentHashHex, pubkey, w) ==
    IF ParseUint(slot).err # "nil"
    THEN RespondError(StatusBadRequest, ErrInvalidSlot, "getHeader")
    ELSE IF Len(pubkey) # PubkeyHexLen
    THEN RespondError(StatusBadRequest, ErrInvalidPubkey, "getHeader")
    ELSE IF Len(parentHashHex) # HashHexLen
    THEN RespondError(StatusBadRequest, ErrInvalidHash, "getHeader")
    ELSE Sent(WriteHeader(Write(w, NilResponse).w, StatusNoContent), "getHeader")

handleGetHeader(slot, parentHashHex, pubkey, w) ==
    IF ParseUint(slot).err # "nil"
    THEN RespondError(StatusBadRequest, ErrInvalidSlot, "getHeader")
    ELSE IF Len(pubkey) # PubkeyHexLen
    THEN RespondError(StatusBadRequest, ErrInvalidPubkey, "getHeader")
    ELSE IF Len(parentHashHex) # HashHexLen
    THEN RespondError(StatusBadRequest, ErrInvalidHash, "getHeader")
    ELSE LET w1  == WriteHeader(w, StatusNoContent)
             enc == Write(w1, NilResponse)
         IN  IF enc.err # "nil"
             THEN Sent(HttpError(enc.w, "", StatusInternalServerError), "getHeader")
             ELSE Sent(enc.w, "getHeader")

\* the router's answer to a path no route matches
NotFound == [status |-> StatusNotFound, body |-> <<"404 page not found">>, handler |-> "none"]

-----------------------------------------------------------------------------
(* get-payload                                                              *)

SignatureLen == 96

\* json.Decoder.Decode into a SignedBlindedBeaconBlock: the body is a JSON
\* object holding a block, or something the decoder refuses
DecodeBlock(body) ==
    CASE body.kind = "block"  -> [err |-> "nil", signatureLen |-> body.signatureLen]
      [] body.kind = "eof"    -> [err |-> "EOF", signatureLen |-> 0]
      [] body.kind = "syntax" -> [err |-> "invalid character 'x' looking for beginning of value",
                                  signatureLen |-> 0]
      [] OTHER                -> [err |-> "json: cannot unmarshal array into Go value of type types.SignedBlindedBeaconBlock",
                                  signatureLen |-> 0]

\* handleGetPayload checking the signature length before the decode error
handleGetPayload_LengthFirst(body) ==
    LET dec == DecodeBlock(body) IN
    IF dec.signatureLen # SignatureLen
    THEN RespondError(StatusBadRequest, ErrInvalidSignature, "getPayload")
    ELSE IF dec.err # "nil"
    THEN RespondError(StatusBadRequest, dec.err, "getPayload")
    ELSE RespondOKEmpty("getPayload")

handleGetPayload(body) ==
    LET dec == DecodeBlock(body) IN
    IF dec.err # "nil"
    THEN RespondError(StatusBadRequest, dec.err, "getPayload")
    ELSE IF dec.signatureLen # SignatureLen
    THEN RespondError(StatusBadRequest, ErrInvalidSignature, "getPayload")
    ELSE RespondOKEmpty("getPayload")

-----------------------------------------------------------------------------
(* The requests the stateless endpoints are exercised with                  *)

Rep(c, n) == [i \in 1..n |-> c]
Hex(n) == <<"0", "x">> \o Rep("0", n - 2)

SlotMaxUint64 == <<"1", "8", "4", "4", "6", "7", "4", "4", "0", "7", "3", "7", "0", "9", "5", "5", "1", "6", "1", "5">>
SlotOverflowByOne == <<"1", "8", "4", "4", "6", "7", "4", "4", "0", "7", "3", "7", "0", "9", "5", "5", "1", "6", "1", "6">>
SlotOverflowByFive == <<"1", "8", "4", "4", "6", "7", "4", "4", "0", "7", "3", "7", "0", "9", "5", "5", "1", "6", "2", "0">>
SlotAllNines == Rep("9", 20)
SlotPadded == Rep("0", 22) \o <<"1", "2", "3">>

SlotSamples ==
    { <<"0">>, <<"1", "2", "3">>, SlotMaxUint64, SlotOverflowByOne, SlotOverflowByFive,
      SlotAllNines, SlotPadded, <<>>, <<"a", "b", "c">> }

PubkeySamples ==
    { Hex(PubkeyHexLen), Hex(90), Hex(PubkeyHexLen + 1), Hex(PubkeyHexLen - 1) \o <<"g">> }

HashSamples ==
    { Hex(HashHexLen), Hex(64), Hex(HashHexLen + 1), Rep("f", HashHexLen) }

BlockBodies ==
    [kind : {"block"}, signatureLen : {0, 95, SignatureLen, 97}]
    \cup [kind : {"eof", "syntax", "array"}, signatureLen : {0}]

GetHeader ==
    /\ \E slot \in SlotSamples, parentHash \in HashSamples, pubkey \in PubkeySamples,
          kind \in WriterKinds :
          /\ apiReq' = [ep |-> "getHeader", slot |-> slot, parentHash |-> parentHash,
                        pubkey |-> pubkey, writer |-> kind]
          /\ apiResp' = IF RouteGetHeader(slot, parentHash, pubkey)
                        THEN handleGetHeader(slot, parentHash, pubkey, NewWriter(kind))
                        ELSE NotFound
    /\ UNCHANGED <<lifeVars, ctorVars, dsVars, reg>>

GetPayload ==
    /\ \E body \in BlockBodies :
          /\ apiReq' = [ep |-> "getPayload", body |-> body]
          /\ apiResp' = handleGetPayload(body)
    /\ UNCHANGED <<lifeVars, ctorVars, dsVars, reg>>

-----------------------------------------------------------------------------
(* The datastore (package datastore): the cached known-validator set and    *)
(* the stored registrations, of which only the timestamp is kept.           *)

Keys == {"k1", "k2"}

\* ProposerDatastore.IsKnownValidator
IsKnownValidator(known, key) == key \in known

\* ProposerDatastore.RefreshKnownValidators: an error, or the complete set
\* fetched from the backend
RefreshResults ==
    [err : {"nil"}, validators : SUBSET Keys]
    \cup {[err |-> "datastore", validators |-> {}]}

\* a refresh that adds what it fetched to the cached set, entry by entry
KnownAfterRefresh_Merge(known, res) == IF res.err # "nil" THEN known ELSE known \cup res.validators

\* the cached set after a refresh returned res: replaced as a whole, or
\* retained when the refresh failed
KnownAfterRefresh(known, res) == IF res.err # "nil" THEN known ELSE res.validators

\* an upsert that stores whatever arrives last
UpdateValidatorRegistration_ArrivalOrder(store, r, fails) ==
    IF fails THEN store ELSE [store EXCEPT ![r.key] = r.timestamp]

\* ProposerDatastore.UpdateValidatorRegistration: save, or update when the
\* timestamp is newer than the stored one; a failing store changes nothing
UpdateValidatorRegistration(store, r, fails) ==
    IF fails THEN store
    ELSE IF store[r.key] < r.timestamp THEN [store EXCEPT ![r.key] = r.timestamp]
    ELSE store

-----------------------------------------------------------------------------
(* ProposerAPI.Start, the goroutine it starts, and the context              *)

MaxTicks == 2

\* no refresh in flight
NoFetch == [err |-> "none", validators |-> {}, installed |-> FALSE]

\* Start failing when the first refresh returns no validator
Start_FailOnEmpty ==
    /\ started = "no"
    /\ \E res \in RefreshResults :
          /\ lastRefresh' = IF res.err # "nil" THEN "err" ELSE "ok"
          /\ IF res.err # "nil" \/ res.validators = {}
             THEN /\ started' = "err"
                  /\ UNCHANGED <<bg, sel>>
             ELSE /\ started' = "ok"
                  /\ bg' = "waiting"
                  /\ sel' = IF ctxDone THEN "done" ELSE "none"
          /\ knownValidators' = KnownAfterRefresh(knownValidators, res)
    /\ UNCHANGED <<apiVars, ctorVars, ctxDone, tickPending, ticks, bgRefreshes, bgFetched,
                   knownPrior, stopped, serving, registrations, reg>>

\* Start: the synchronous refresh, then the goroutine, whose select finds
\* the context already cancelled or blocks
Start ==
    /\ started = "no"
    /\ \E res \in RefreshResults :
          /\ lastRefresh' = IF res.err # "nil" THEN "err" ELSE "ok"
          /\ IF res.err # "nil"
             THEN /\ started' = "err"
                  /\ UNCHANGED <<bg, sel, knownValidators>>
             ELSE /\ started' = "ok"
                  /\ bg' = "waiting"
                  /\ sel' = IF ctxDone THEN "done" ELSE "none"
                  /\ knownValidators' = KnownAfterRefresh(knownValidators, res)
    /\ UNCHANGED <<apiVars, ctorVars, ctxDone, tickPending, ticks, bgRefreshes, bgFetched,
                   knownPrior, stopped, serving, registrations, reg>>

\* Stop: api.ctx.Done() returns the channel of the context and does nothing
\* to it
Stop ==
    /\ ~stopped
    /\ stopped' = TRUE
    /\ UNCHANGED <<apiVars, ctorVars, started, ctxDone, bg, tickPending, ticks,
                   bgRefreshes, lastRefresh, sel, bgFetched, knownPrior, serving,
                   dsVars, reg>>

\* the owner of the context cancels it; a goroutine blocked in the select is
\* woken for the case of the channel that fires first
Cancel ==
    /\ ~ctxDone
    /\ ctxDone' = TRUE
    /\ sel' = IF bg = "waiting" /\ sel = "none" THEN "done" ELSE sel
    /\ UNCHANGED <<apiVars, ctorVars, started, bg, tickPending, ticks, bgRefreshes,
                   lastRefresh, bgFetched, knownPrior, stopped, serving, dsVars, reg>>

\* the ticker of the select delivers a tick: one per epoch, dropped when the
\* channel still holds the previous one; nothing ever stops the ticker
Tick ==
    /\ bg # "none"
    /\ ~tickPending
    /\ ticks < MaxTicks
    /\ tickPending' = TRUE
    /\ ticks' = ticks + 1
    /\ sel' = IF bg = "waiting" /\ sel = "none" THEN "tick" ELSE sel
    /\ UNCHANGED <<apiVars, ctorVars, started, ctxDone, bg, bgRefreshes, lastRefresh,
                   bgFetched, knownPrior, stopped, serving, dsVars, reg>>

\* select, case <-api.ctx.Done(): return
BgCancelled ==
    /\ bg = "waiting"
    /\ sel = "done"
    /\ bg' = "exited"
    /\ UNCHANGED <<apiVars, ctorVars, started, ctxDone, tickPending, ticks, bgRefreshes,
                   lastRefresh, sel, bgFetched, knownPrior, stopped, serving, dsVars, reg>>

\* BgTick taking a tick whenever the channel holds one, whatever woke the
\* goroutine (the ticker polled ahead of the select)
BgTick_Poll ==
    /\ bg = "waiting"
    /\ tickPending
    /\ tickPending' = FALSE
    /\ bg' = "refreshing"
    /\ bgRefreshes' = bgRefreshes + 1
    /\ knownPrior' = knownValidators
    /\ \E res \in RefreshResults :
          bgFetched' = [err |-> res.err, validators |-> res.validators, installed |-> FALSE]
    /\ UNCHANGED <<apiVars, ctorVars, started, ctxDone, ticks, lastRefresh, sel, stopped,
                   serving, dsVars, reg>>

\* select, case <-ticker.C: the goroutine calls RefreshKnownValidators, which
\* fetches the complete set from the backend
BgTick ==
    /\ bg = "waiting"
    /\ sel = "tick"
    /\ tickPending' = FALSE
    /\ bg' = "refreshing"
    /\ bgRefreshes' = bgRefreshes + 1
    /\ knownPrior' = knownValidators
    /\ \E res \in RefreshResults :
          bgFetched' = [err |-> res.err, validators |-> res.validators, installed |-> FALSE]
    /\ UNCHANGED <<apiVars, ctorVars, started, ctxDone, ticks, lastRefresh, sel, stopped,
                   serving, dsVars, reg>>

\* RefreshKnownValidators puts what it fetched in place of the cached set
BgRefreshInstall ==
    /\ bg = "refreshing"
    /\ ~bgFetched.installed
    /\ knownValidators' = KnownAfterRefresh(knownValidators, bgFetched)
    /\ bgFetched' = [bgFetched EXCEPT !.installed = TRUE]
    /\ UNCHANGED <<apiVars, ctorVars, started, ctxDone, bg, tickPending, ticks,
                   bgRefreshes, lastRefresh, sel, knownPrior, stopped, serving,
                   registrations, reg>>

\* where the goroutine goes once the refresh of its select has returned: the
\* select is not in a loop, the goroutine function ends
AfterRefresh == "exited"

\* RefreshKnownValidators returns to the goroutine, which logs the outcome
BgRefreshReturn ==
    /\ bg = "refreshing"
    /\ bgFetched.installed
    /\ lastRefresh' = IF bgFetched.err # "nil" THEN "err" ELSE "ok"
    /\ bg' = AfterRefresh
    /\ bgFetched' = NoFetch
    /\ knownPrior' = {}
    /\ UNCHANGED <<apiVars, ctorVars, started, ctxDone, tickPending, ticks, bgRefreshes,
                   sel, stopped, serving, dsVars, reg>>

\* when the owner of the API may begin to serve: once Start has succeeded
CanServe_Always == TRUE

CanServe == started = "ok"

\* the owner begins to serve the registered handlers
Serve ==
    /\ ~serving
    /\ CanServe
    /\ serving' = TRUE
    /\ UNCHANGED <<apiVars, ctorVars, started, ctxDone, bg, tickPending, ticks,
                   bgRefreshes, lastRefresh, sel, bgFetched, knownPrior, stopped,
                   dsVars, reg>>

-----------------------------------------------------------------------------
(* register                                                                 *)

PubkeyLen == 48

MaxBatch == 2

\* a signed registration as decoded: the key it names, the lengths of its
\* pubkey and signature, what the signature check will say of it ("good",
\* "bad", or "err" when the check itself fails), and its timestamp
Registration(key, pubkeyLen, signatureLen, sig, timestamp) ==
    [key |-> key, pubkeyLen |-> pubkeyLen, signatureLen |-> signatureLen,
     sig |-> sig, timestamp |-> timestamp]

RegistrationSamples ==
    { Registration("k1", PubkeyLen, SignatureLen, "good", 1),
      Registration("k1", PubkeyLen, SignatureLen, "good", 2),
      Registration("k1", PubkeyLen - 1, SignatureLen, "good", 2),
      Registration("k2", PubkeyLen, SignatureLen + 1, "good", 2),
      Registration("k1", PubkeyLen, SignatureLen, "bad", 2),
      Registration("k2", PubkeyLen, SignatureLen, "err", 2) }

Batches == UNION { [1..n -> RegistrationSamples] : n \in 0..MaxBatch }

\* a request body: a JSON array of registrations, an array that breaks off
\* after some of them, or something that is no array at all
RegisterBodies ==
    [kind : {"array"}, entries : Batches]
    \cup [kind : {"truncated"}, entries : { b \in Batches : Len(b) <= 1 }]
    \cup [kind : {"eof", "object"}, entries : {<<>>}]

\* json.Decoder.Decode into the payload slice: the entries decoded before an
\* error stay in the slice
DecodeRegistrations(body) ==
    CASE body.kind = "array"     -> [err |-> "nil", payload |-> body.entries]
      [] body.kind = "truncated" -> [err |-> "unexpected EOF", payload |-> body.entries]
      [] body.kind = "eof"       -> [err |-> "EOF", payload |-> <<>>]
      [] OTHER                   -> [err |-> "json: cannot unmarshal object into Go value of type []types.SignedValidatorRegistration",
                                     payload |-> <<>>]

\* types.VerifySignature: (ok, err)
VerifySignature(r) ==
    [ok |-> r.sig = "good", err |-> IF r.sig = "err" THEN "verify" ELSE "nil"]

Call(op, res) == [op |-> op, res |-> res]

\* ProcessRegistration skipping on "err != nil && !ok": a signature that does
\* not verify, without an error, goes on to the upsert
ProcessRegistration_AndNotOr(r, known, store, fails) ==
    IF r.pubkeyLen # PubkeyLen THEN [calls |-> <<>>, store |-> store]
    ELSE IF r.signatureLen # SignatureLen THEN [calls |-> <<>>, store |-> store]
    ELSE IF ~IsKnownValidator(known, r.key)
    THEN [calls |-> <<Call("IsKnownValidator", "false")>>, store |-> store]
    ELSE LET v == VerifySignature(r) IN
         IF v.err # "nil" /\ ~v.ok
         THEN [calls |-> <<Call("IsKnownValidator", "true"),
                           Call("VerifySignature", "false")>>,
               store |-> store]
         ELSE [calls |-> <<Call("IsKnownValidator", "true"),
                           Call("VerifySignature", IF v.ok THEN "true" ELSE "false"),
                           Call("UpdateValidatorRegistration",
                                IF fails THEN "err" ELSE "nil")>>,
               store |-> UpdateValidatorRegistration(store, r, fails)]

\* ProcessRegistration asking the datastore before it checks the lengths
ProcessRegistration_MembershipFirst(r, known, store, fails) ==
    IF ~IsKnownValidator(known, r.key)
    THEN [calls |-> <<Call("IsKnownValidator", "false")>>, store |-> store]
    ELSE IF r.pubkeyLen # PubkeyLen \/ r.signatureLen # SignatureLen
    THEN [calls |-> <<Call("IsKnownValidator", "true")>>, store |-> store]
    ELSE LET v == VerifySignature(r) IN
         IF v.err # "nil" \/ ~v.ok
         THEN [calls |-> <<Call("IsKnownValidator", "true"),
                           Call("VerifySignature", "false")>>,
               store |-> store]
         ELSE [calls |-> <<Call("IsKnownValidator", "true"),
                           Call("VerifySignature", "true"),
                           Call("UpdateValidatorRegistration",
                                IF fails THEN "err" ELSE "nil")>>,
               store |-> UpdateValidatorRegistration(store, r, fails)]

\* One iteration of the loop of handleRegisterValidator over registration r:
\* the calls it makes, in order, and the store it leaves.
ProcessRegistration(r, known, store, fails) ==
    IF r.pubkeyLen # PubkeyLen THEN [calls |-> <<>>, store |-> store]
    ELSE IF r.signatureLen # SignatureLen THEN [calls |-> <<>>, store |-> store]
    ELSE IF ~IsKnownValidator(known, r.key)
    THEN [calls |-> <<Call("IsKnownValidator", "false")>>, store |-> store]
    ELSE LET v == VerifySignature(r) IN
         IF v.err # "nil" \/ ~v.ok
         THEN [calls |-> <<Call("IsKnownValidator", "true"),
                           Call("VerifySignature", "false")>>,
               store |-> store]
         ELSE [calls |-> <<Call("IsKnownValidator", "true"),
                           Call("VerifySignature", "true"),
                           Call("UpdateValidatorRegistration",
                                IF fails THEN "err" ELSE "nil")>>,
               store |-> UpdateValidatorRegistration(store, r, fails)]

Handlers == {"h1", "h2"}

\* the handler of the specification that serves one request at a time
Sequential == {"h1"}

Idle == [pc |-> "idle", body |-> [kind |-> "none", entries |-> <<>>], payload |-> <<>>,
         i |-> 0, calls |-> <<>>, knownAt |-> <<>>, resp |-> NoResponse]

\* RegisterDecode without the return after RespondError: the loop runs over
\* what the decoder left in the payload
RegisterDecode_NoReturn(h) ==
    /\ reg[h].pc = "idle"
    /\ \E body \in RegisterBodies :
          LET dec == DecodeRegistrations(body) IN
          reg' = [reg EXCEPT ![h] =
                    [Idle EXCEPT !.pc = "loop", !.body = body,
                                 !.payload = dec.payload, !.i = 1,
                                 !.resp = IF dec.err # "nil"
                                          THEN RespondError(StatusBadRequest, dec.err,
                                                            "registerValidator")
                                          ELSE NoResponse]]
    /\ UNCHANGED <<apiVars, lifeVars, ctorVars, dsVars>>

\* handleRegisterValidator up to its loop: decode the body, answer 400 and
\* return when that fails
RegisterDecode(h) ==
    /\ reg[h].pc = "idle"
    /\ \E body \in RegisterBodies :
          LET dec == DecodeRegistrations(body) IN
          reg' = [reg EXCEPT ![h] =
                    IF dec.err # "nil"
                    THEN [Idle EXCEPT !.pc = "done", !.body = body,
                                      !.payload = dec.payload,
                                      !.resp = RespondError(StatusBadRequest, dec.err,
                                                            "registerValidator")]
                    ELSE [Idle EXCEPT !.pc = "loop", !.body = body,
                                      !.payload = dec.payload, !.i = 1]]
    /\ UNCHANGED <<apiVars, lifeVars, ctorVars, dsVars>>

\* RegisterEntry leaving the loop when the upsert fails (break for continue)
RegisterEntry_BreakOnError(h) ==
    /\ reg[h].pc = "loop"
    /\ reg[h].i <= Len(reg[h].payload)
    /\ \E fails \in BOOLEAN :
          LET i   == reg[h].i
              out == ProcessRegistration(reg[h].payload[i], knownValidators,
                                         registrations, fails)
              failed == \E n \in 1..Len(out.calls) : out.calls[n].res = "err"
          IN  /\ registrations' = out.store
              /\ reg' = [reg EXCEPT
                    ![h].calls = @ \o [n \in 1..Len(out.calls) |->
                                          [op |-> out.calls[n].op, res |-> out.calls[n].res,
                                           idx |-> i]],
                    ![h].knownAt = Append(@, knownValidators),
                    ![h].i = IF failed THEN Len(reg[h].payload) + 1 ELSE i + 1]
    /\ UNCHANGED <<apiVars, lifeVars, ctorVars, knownValidators>>

\* one iteration of the loop
RegisterEntry(h) ==
    /\ reg[h].pc = "loop"
    /\ reg[h].i <= Len(reg[h].payload)
    /\ \E fails \in BOOLEAN :
          LET i   == reg[h].i
              out == ProcessRegistration(reg[h].payload[i], knownValidators,
                                         registrations, fails)
          IN  /\ registrations' = out.store
              /\ reg' = [reg EXCEPT
                    ![h].calls = @ \o [n \in 1..Len(out.calls) |->
                                          [op |-> out.calls[n].op, res |-> out.calls[n].res,
                                           idx |-> i]],
                    ![h].knownAt = Append(@, knownValidators),
                    ![h].i = i + 1]
    /\ UNCHANGED <<apiVars, lifeVars, ctorVars, knownValidators>>

\* after the loop: api.RespondOK(w, common.NilResponse)
RegisterRespond(h) ==
    /\ reg[h].pc = "loop"
    /\ reg[h].i > Len(reg[h].payload)
    /\ reg' = [reg EXCEPT ![h].pc = "done",
                          ![h].resp = RespondOK(NilResponse, "registerValidator")]
    /\ UNCHANGED <<apiVars, lifeVars, ctorVars, dsVars>>

\* the handler returns; the next request starts from scratch
RegisterReturn(h) ==
    /\ reg[h].pc = "done"
    /\ reg' = [reg EXCEPT ![h] = Idle]
    /\ UNCHANGED <<apiVars, lifeVars, ctorVars, dsVars>>

\* the router hands a request to handleRegisterValidator once the owner serves
Dispatch(h) == serving /\ RegisterDecode(h)

-----------------------------------------------------------------------------
(* The constructors: NewBuilderEntry and NewEthNetworkDetails of package   *)
(* common, NewProposerAPI of package proposer                               *)

\* the nil pointer or interface value; every other value is a record of its own
Nil == [nil |-> TRUE]

\* a pointer to something the caller built
Ptr(name) == [ptr |-> name]

\* a call that ended in a run-time panic
Panic == [kind |-> "panic", val |-> Nil, err |-> "invalid memory address or nil pointer dereference"]

\* a call that returned (val, err)
Returned(val, err) == [kind |-> "returned", val |-> val, err |-> err]

\* an identity string, in its parts: scheme://cred@host:port, every part but
\* the host optional
BuilderURL(scheme, cred, host, port) ==
    [scheme |-> scheme, cred |-> cred, host |-> host, port |-> port]

\* the credentials of the samples: none, 0x and 96, 94, 0 or an odd number of
\* hex digits, hex digits without 0x, a plain user name
CredSamples == {"none", "hex48", "hex47", "hex0", "oddhex", "noprefix", "user"}

HostSamples == {"localhost", "10.0.0.1", "httpd.local", "bad host"}

PortSamples == {"", "8080", "port"}

BuilderURLSamples ==
    { BuilderURL(sc, c, h, p) : sc \in {"", "http", "https"}, c \in CredSamples,
                                h \in HostSamples, p \in PortSamples }

\* strings.HasPrefix(builderURL, "http"): the string starts with its scheme,
\* or else its credential, or else its host
HasPrefixHttp(in) ==
    \/ in.scheme # ""
    \/ in.cred = "none" /\ in.host = "httpd.local"

\* url.Parse: with a scheme the authority is parsed, a host with a space or a
\* port that is no number is an error; without one, host:port reads as
\* scheme:opaque and a bare host as a path
Parse(in, scheme) ==
    IF scheme = ""
    THEN [err |-> "nil", Scheme |-> IF in.port # "" THEN in.host ELSE "",
          Host |-> "", Username |-> "none"]
    ELSE IF in.host = "bad host"
    THEN [err |-> "invalid character in host name", Scheme |-> "", Host |-> "",
          Username |-> "none"]
    ELSE IF in.port = "port"
    THEN [err |-> "invalid port", Scheme |-> "", Host |-> "", Username |-> "none"]
    ELSE [err |-> "nil", Scheme |-> scheme,
          Host |-> IF in.port = "" THEN <<in.host>> ELSE <<in.host, ":", in.port>>,
          Username |-> in.cred]

\* hexutil.Bytes.UnmarshalText: the number of bytes decoded, or an error; an
\* empty text decodes to no byte
UnmarshalText(cred) ==
    CASE cred = "none"     -> [err |-> "nil", len |-> 0]
      [] cred = "hex48"    -> [err |-> "nil", len |-> 48]
      [] cred = "hex47"    -> [err |-> "nil", len |-> 47]
      [] cred = "hex0"     -> [err |-> "nil", len |-> 0]
      [] cred = "oddhex"   -> [err |-> "hex string of odd length", len |-> 0]
      [] cred = "noprefix" -> [err |-> "hex string without 0x prefix", len |-> 0]
      [] OTHER             -> [err |-> "invalid hex string", len |-> 0]

\* NewBuilderEntry: the composite literal that is to become the entry reads
\* entry.URL.Scheme while the named result entry is still nil
NewBuilderEntry(in) ==
    LET scheme == IF ~HasPrefixHttp(in) THEN "http" ELSE in.scheme
        url    == Parse(in, scheme)
        entry  == Nil
    IN  IF url.err # "nil" THEN Returned(entry, url.err)
        ELSE IF entry = Nil THEN Panic
        ELSE LET key == UnmarshalText(url.Username)
             IN  Returned([URL |-> url, Address |-> <<url.Scheme, "://", url.Host>>,
                           Pubkey |-> key.len],
                          key.err)

CallNewBuilderEntry ==
    /\ \E in \in BuilderURLSamples :
          /\ call' = [fn |-> "NewBuilderEntry", in |-> in]
          /\ ret' = NewBuilderEntry(in)
    /\ UNCHANGED <<apiVars, lifeVars, stats, dsVars, reg>>

EthNetworkKiln == "kiln"
EthNetworkRopsten == "ropsten"
EthNetworkSepolia == "sepolia"
EthNetworkGoerliShadowFork5 == "goerli-shadow-fork-5"

GenesisValidatorsRootGoerliShadowFork5 == "0xe45f26d5a29b0ed5a9f62f248b842a30dd7b7fba0b5b104eab271efc04e0cf66"
GenesisForkVersionGoerliShadowFork5 == "0x13001034"
BellatrixForkVersionGoerliShadowFork5 == "0x22001034"

EthNetworkDetails(name, genesisForkVersion, genesisValidatorsRoot, bellatrixForkVersion) ==
    [Name |-> name, GenesisForkVersionHex |-> genesisForkVersion,
     GenesisValidatorsRootHex |-> genesisValidatorsRoot,
     BellatrixForkVersionHex |-> bellatrixForkVersion]

\* NewEthNetworkDetails without the default case of its switch
NewEthNetworkDetails_NoDefault(networkName) ==
    CASE networkName = EthNetworkKiln ->
            Returned(EthNetworkDetails(networkName, "types.GenesisForkVersionKiln",
                                       "types.GenesisValidatorsRootKiln",
                                       "types.BellatrixForkVersionKiln"), "nil")
      [] networkName = EthNetworkRopsten ->
            Returned(EthNetworkDetails(networkName, "types.GenesisForkVersionRopsten",
                                       "types.GenesisValidatorsRootRopsten",
                                       "types.BellatrixForkVersionRopsten"), "nil")
      [] networkName = EthNetworkSepolia ->
            Returned(EthNetworkDetails(networkName, "types.GenesisForkVersionSepolia",
                                       "types.GenesisValidatorsRootSepolia",
                                       "types.BellatrixForkVersionSepolia"), "nil")
      [] networkName = EthNetworkGoerliShadowFork5 ->
            Returned(EthNetworkDetails(networkName, GenesisForkVersionGoerliShadowFork5,
                                       GenesisValidatorsRootGoerliShadowFork5,
                                       BellatrixForkVersionGoerliShadowFork5), "nil")
      [] OTHER -> Returned(EthNetworkDetails(networkName, "", "", ""), "nil")

\* NewEthNetworkDetails: the constants of go-boost-utils stand for themselves
NewEthNetworkDetails(networkName) ==
    CASE networkName = EthNetworkKiln ->
            Returned(EthNetworkDetails(networkName, "types.GenesisForkVersionKiln",
                                       "types.GenesisValidatorsRootKiln",
                                       "types.BellatrixForkVersionKiln"), "nil")
      [] networkName = EthNetworkRopsten ->
            Returned(EthNetworkDetails(networkName, "types.GenesisForkVersionRopsten",
                                       "types.GenesisValidatorsRootRopsten",
                                       "types.BellatrixForkVersionRopsten"), "nil")
      [] networkName = EthNetworkSepolia ->
            Returned(EthNetworkDetails(networkName, "types.GenesisForkVersionSepolia",
                                       "types.GenesisValidatorsRootSepolia",
                                       "types.BellatrixForkVersionSepolia"), "nil")
      [] networkName = EthNetworkGoerliShadowFork5 ->
            Returned(EthNetworkDetails(networkName, GenesisForkVersionGoerliShadowFork5,
                                       GenesisValidatorsRootGoerliShadowFork5,
                                       BellatrixForkVersionGoerliShadowFork5), "nil")
      [] OTHER -> Returned(Nil, <<"unknown network: ", networkName>>)

NetworkNameSamples ==
    {EthNetworkKiln, EthNetworkRopsten, EthNetworkSepolia, EthNetworkGoerliShadowFork5,
     "", "mainnet", "goerli", "Kiln", "kiln ", "goerli-shadow-fork-4"}

CallNewEthNetworkDetails ==
    /\ \E name \in NetworkNameSamples :
          /\ call' = [fn |-> "NewEthNetworkDetails", in |-> name]
          /\ ret' = NewEthNetworkDetails(name)
    /\ UNCHANGED <<apiVars, lifeVars, stats, dsVars, reg>>

ForkVersionLen == 4

\* common.ComputerBuilderSigningDomain: a domain from a genesis fork version
\* of 0x and eight hex digits, an error from anything else
ComputerBuilderSigningDomain(forkVersionHex) ==
    IF MatchHex(forkVersionHex) /\ Len(forkVersionHex) = 2 + 2 * ForkVersionLen
    THEN [domain |-> <<"domain", forkVersionHex>>, err |-> "nil"]
    ELSE [domain |-> <<"domain", <<>>>>, err |-> "invalid fork version"]

\* the genesis fork version of goerli-shadow-fork-5, and strings that are not
\* one: too short, too long, no prefix, no hex, empty
ForkVersionSamples ==
    { <<"0", "x", "1", "3", "0", "0", "1", "0", "3", "4">>,
      <<"0", "x", "1", "3", "0", "0", "1", "0", "3">>,
      <<"0", "x", "1", "3", "0", "0", "1", "0", "3", "4", "0", "0">>,
      <<"1", "3", "0", "0", "1", "0", "3", "4">>,
      <<"0", "x", "z", "z", "0", "0", "1", "0", "3", "4">>,
      <<>> }

\* NewProposerAPI: (nil, err) without a logger or a datastore; otherwise the
\* API it built together with whatever ComputerBuilderSigningDomain returned
NewProposerAPI(ctx, log, ds, genesisForkVersionHex) ==
    IF log = Nil THEN Returned(Nil, "log parameter is nil")
    ELSE IF ds = Nil THEN Returned(Nil, "proposer API datastore parameter is nil")
    ELSE LET d == ComputerBuilderSigningDomain(genesisForkVersionHex)
         IN  Returned([ctx |-> IF ctx = Nil THEN Ptr("context.Background()") ELSE ctx,
                       datastore |-> ds, builderSigningDomain |-> d.domain],
                      d.err)

CallNewProposerAPI ==
    /\ \E ctx \in {Nil, Ptr("ctx")}, log \in {Nil, Ptr("log")}, ds \in {Nil, Ptr("ds")},
          fv \in ForkVersionSamples :
          /\ call' = [fn |-> "NewProposerAPI",
                      in |-> [ctx |-> ctx, log |-> log, ds |-> ds,
                              genesisForkVersionHex |-> fv]]
          /\ ret' = NewProposerAPI(ctx, log, ds, fv)
    /\ UNCHANGED <<apiVars, lifeVars, stats, dsVars, reg>>

-----------------------------------------------------------------------------
(* The specifications                                                       *)

Init ==
    /\ apiReq = [ep |-> "none"]
    /\ apiResp = NoResponse
    /\ started = "no"
    /\ ctxDone = FALSE
    /\ bg = "none"
    /\ tickPending = FALSE
    /\ ticks = 0
    /\ bgRefreshes = 0
    /\ lastRefresh = "none"
    /\ sel = "none"
    /\ bgFetched = NoFetch
    /\ knownPrior = {}
    /\ stopped = FALSE
    /\ serving = FALSE
    /\ stats = [ValidatorRegistrationsTotal |-> 0, NumRegisterValidatorRequests |-> 0,
                NumGetHeaderRequests |-> 0, NumGetPayloadRequests |-> 0]
    /\ call = [fn |-> "none"]
    /\ ret = [kind |-> "none"]
    /\ knownValidators = {}
    /\ registrations = [k \in Keys |-> 0]
    /\ reg = [h \in Handlers |-> Idle]

ApiNext == GetHeader \/ GetPayload

ApiSpec == Init /\ [][ApiNext]_vars

Next ==
    \/ Start
    \/ Cancel
    \/ Tick
    \/ BgCancelled
    \/ BgTick
    \/ BgRefreshInstall
    \/ BgRefreshReturn
    \/ Serve
    \/ \E h \in Sequential : Dispatch(h)
    \/ \E h \in Sequential : RegisterEntry(h)
    \/ \E h \in Sequential : RegisterRespond(h)
    \/ \E h \in Sequential : RegisterReturn(h)

Spec == Init /\ [][Next]_vars

\* registrations that pass every check of the handler for a known key
ConcSamples ==
    { e \in RegistrationSamples :
        e.pubkeyLen = PubkeyLen /\ e.signatureLen = SignatureLen /\ e.sig = "good" }

\* a request whose body is an array of such registrations
ConcDispatch(h) ==
    /\ Dispatch(h)
    /\ reg'[h].body.kind = "array"
    /\ \A j \in DOMAIN reg'[h].body.entries : reg'[h].body.entries[j] \in ConcSamples

\* net/http runs every request in a goroutine of its own: two requests in
\* flight, their loops interleaved entry by entry
ConcNext ==
    \/ Start
    \/ Serve
    \/ \E h \in Handlers : ConcDispatch(h)
    \/ \E h \in Handlers : RegisterEntry(h)
    \/ \E h \in Handlers : RegisterRespond(h)
    \/ \E h \in Handlers : RegisterReturn(h)

ConcSpec == Init /\ [][ConcNext]_vars

\* the constructors, called on any of their inputs
CtorNext ==
    \/ CallNewBuilderEntry
    \/ CallNewEthNetworkDetails
    \/ CallNewProposerAPI

CtorSpec == Init /\ [][CtorNext]_vars

\* the life cycle alone
LifeNext ==
    \/ Start
    \/ Stop
    \/ Cancel
    \/ Tick
    \/ BgCancelled
    \/ BgTick
    \/ BgRefreshInstall
    \/ BgRefreshReturn
    \/ Serve

\* the Go scheduler runs a runnable goroutine eventually, and a call into the
\* datastore returns
LifeFairness ==
    /\ WF_vars(BgCancelled)
    /\ WF_vars(BgTick)
    /\ WF_vars(BgRefreshInstall)
    /\ WF_vars(BgRefreshReturn)

LifeSpec == Init /\ [][LifeNext]_vars /\ LifeFairness

-----------------------------------------------------------------------------
(* Vocabulary of the properties                                             *)

\* the calls of a request that are op on entry j
CallsOf(r, op, j) == { n \in 1..Len(r.calls) : r.calls[n].op = op /\ r.calls[n].idx = j }

Upserts(r) == { n \in 1..Len(r.calls) : r.calls[n].op = "UpdateValidatorRegistration" }

WellFormed(e) == e.pubkeyLen = PubkeyLen /\ e.signatureLen = SignatureLen

\* entry j of the request was well-formed, known when its turn came, and
\* correctly signed
ValidEntry(r, j) ==
    /\ WellFormed(r.payload[j])
    /\ r.payload[j].key \in r.knownAt[j]
    /\ r.payload[j].sig = "good"

Answered(r) == r.pc = "done"

IsError(resp, code, msg) == resp.status = code /\ resp.body = <<msg>>

\* the decimal digits of s without its leading zeros
Significant(s) ==
    LET z == CHOOSE i \in 0..Len(s) :
                 /\ \A j \in 1..i : s[j] = "0"
                 /\ (i < Len(s) => s[i + 1] # "0")
    IN  SubSeq(s, z + 1, Len(s))

\* a <= b for two digit strings of the same length
DecimalLeq(a, b) ==
    \/ a = b
    \/ \E i \in 1..Len(a) :
          /\ DigitVal(a[i]) < DigitVal(b[i])
          /\ \A j \in 1..(i - 1) : a[j] = b[j]

\* the digit string s denotes a value of at most 2^64 - 1
FitsUint64(s) ==
    LET t == Significant(s) IN
    \/ Len(t) < Len(SlotMaxUint64)
    \/ Len(t) = Len(SlotMaxUint64) /\ DecimalLeq(t, SlotMaxUint64)

\* the request was dispatched to handleGetHeader
HeaderHandled == apiReq.ep = "getHeader" /\ apiResp.handler = "getHeader"

-----------------------------------------------------------------------------
(* C1: a register request whose body decodes as an array is answered 200,   *)
(* and UpdateValidatorRegistration is called exactly once for each entry    *)
(* that is well-formed, known and correctly signed, and for no other entry: *)
(* N valid entries among M invalid ones give exactly N upserts.             *)
C1_ExactlyNUpserts ==
    \A h \in Handlers :
        LET r == reg[h] IN
        (Answered(r) /\ r.body.kind = "array") =>
            /\ r.resp.status = StatusOK
            /\ Len(r.knownAt) = Len(r.payload)
            /\ \A j \in 1..Len(r.payload) :
                  Cardinality(CallsOf(r, "UpdateValidatorRegistration", j))
                      = IF ValidEntry(r, j) THEN 1 ELSE 0
            /\ Cardinality(Upserts(r))
                  = Cardinality({ j \in 1..Len(r.payload) : ValidEntry(r, j) })

\* an answered batch with an invalid entry ahead of a valid one, one upsert
C1_Witness ==
    \E h \in Handlers :
        LET r == reg[h] IN
        /\ Answered(r) /\ r.body.kind = "array" /\ Len(r.payload) = 2
        /\ ~ValidEntry(r, 1) /\ ValidEntry(r, 2)
        /\ Cardinality(Upserts(r)) = 1
        /\ r.resp.status = StatusOK

(* C2: after a successful Start, as long as the context is not cancelled,   *)
(* the background task is alive and has called RefreshKnownValidators once  *)
(* for every tick delivered, the tick still waiting in the channel apart.   *)
C2_RefreshOnEveryTick ==
    (started = "ok" /\ ~ctxDone) =>
        /\ bg \in {"waiting", "refreshing"}
        /\ bgRefreshes + (IF tickPending THEN 1 ELSE 0) = ticks

(* C3: when a background RefreshKnownValidators returns an error, the       *)
(* cached set is retained and, unless the context is cancelled, the task    *)
(* goes back to waiting for the next tick to refresh again.                 *)
C3_FailedRefreshRetried ==
    [][ (bg = "refreshing" /\ bg' # "refreshing" /\ lastRefresh' = "err") =>
            /\ knownValidators' = knownPrior
            /\ (~ctxDone => bg' = "waiting") ]_vars

(* C4: the steps of an entry run in the order structural check, membership  *)
(* check, signature verification, upsert, and stop at the first failure:    *)
(* IsKnownValidator is only called for a well-formed entry, VerifySignature *)
(* only right after IsKnownValidator answered true for the same entry, and  *)
(* UpdateValidatorRegistration only right after the signature of the same   *)
(* entry verified.                                                          *)
C4_StepOrder ==
    \A h \in Handlers :
        LET r == reg[h] IN
        \A n \in 1..Len(r.calls) :
            LET c == r.calls[n] IN
            /\ c.idx \in 1..Len(r.payload)
            /\ WellFormed(r.payload[c.idx])
            /\ c.op = "IsKnownValidator" =>
                  /\ n > 1 => r.calls[n - 1].idx < c.idx
                  /\ (c.res = "true") = (r.payload[c.idx].key \in r.knownAt[c.idx])
            /\ c.op = "VerifySignature" =>
                  /\ n > 1
                  /\ r.calls[n - 1] = [op |-> "IsKnownValidator", res |-> "true", idx |-> c.idx]
                  /\ (c.res = "true") = (r.payload[c.idx].sig = "good")
            /\ c.op = "UpdateValidatorRegistration" =>
                  /\ n > 1
                  /\ r.calls[n - 1] = [op |-> "VerifySignature", res |-> "true", idx |-> c.idx]
                  /\ ValidEntry(r, c.idx)

\* a batch whose first entry is malformed and names a known key, and whose
\* second entry went through all four steps
C4_Witness ==
    \E h \in Handlers :
        LET r == reg[h] IN
        /\ Len(r.payload) = 2 /\ r.i = 3
        /\ ~WellFormed(r.payload[1]) /\ r.payload[1].key \in r.knownAt[1]
        /\ CallsOf(r, "IsKnownValidator", 1) = {}
        /\ Len(r.calls) = 3
        /\ r.calls[3].op = "UpdateValidatorRegistration"

(* C5: when UpdateValidatorRegistration fails for an entry, the upsert of   *)
(* that entry is not tried again, every later entry is still taken through  *)
(* its steps, and the request is answered 200.                              *)
C5_UpsertErrorIsolated ==
    \A h \in Handlers :
        LET r == reg[h] IN
        /\ \A j \in 1..Len(r.payload) :
              Cardinality(CallsOf(r, "UpdateValidatorRegistration", j)) <= 1
        /\ (Answered(r) /\ r.body.kind = "array") =>
              /\ r.resp = RespondOK(NilResponse, "registerValidator")
              /\ \A n \in Upserts(r) :
                    r.calls[n].res = "err" =>
                        \A j \in (r.calls[n].idx + 1)..Len(r.payload) :
                            /\ j <= Len(r.knownAt)
                            /\ ValidEntry(r, j) =>
                                  CallsOf(r, "UpdateValidatorRegistration", j) # {}
                            /\ (WellFormed(r.payload[j]) /\ ~ValidEntry(r, j)) =>
                                  CallsOf(r, "IsKnownValidator", j) # {}

\* an answered batch whose first upsert failed and whose second entry was
\* upserted all the same
C5_Witness ==
    \E h \in Handlers :
        LET r == reg[h] IN
        /\ Answered(r) /\ Len(r.payload) = 2
        /\ \E n \in CallsOf(r, "UpdateValidatorRegistration", 1) : r.calls[n].res = "err"
        /\ CallsOf(r, "UpdateValidatorRegistration", 2) # {}
        /\ r.resp.status = StatusOK

C7_AnyDigitsAccepted ==
    (apiReq.ep = "getHeader" /\ MatchDigits(apiReq.slot)) =>
        ~IsError(apiResp, StatusBadRequest, ErrInvalidSlot)

(* C7 amended: a slot made only of decimal digits is never answered with    *)
(* the invalid-slot error when its value is at most 2^64 - 1, whatever its  *)
(* width, and is answered 400 invalid slot when its value is larger.        *)
C7_DigitsAcceptedIffFitsUint64 ==
    (apiReq.ep = "getHeader" /\ MatchDigits(apiReq.slot)) =>
        /\ FitsUint64(apiReq.slot) => ~IsError(apiResp, StatusBadRequest, ErrInvalidSlot)
        /\ (HeaderHandled /\ ~FitsUint64(apiReq.slot)) =>
              IsError(apiResp, StatusBadRequest, ErrInvalidSlot)

\* a slot of 25 digits whose value fits is taken, all the way to the 204
C7_Witness ==
    /\ HeaderHandled
    /\ Len(apiReq.slot) > Len(SlotMaxUint64)
    /\ FitsUint64(apiReq.slot)
    /\ apiResp.status = StatusNoContent

(* C8: a get-header request whose slot, pubkey (98 characters) and parent   *)
(* hash (66 characters) are valid is answered 204 with an empty JSON body:  *)
(* no error status, nothing but the empty value in the body.                *)
C8_ValidRequestNoContent ==
    ( /\ HeaderHandled
      /\ FitsUint64(apiReq.slot)
      /\ Len(apiReq.pubkey) = PubkeyHexLen
      /\ Len(apiReq.parentHash) = HashHexLen ) =>
        /\ apiResp.status = StatusNoContent
        /\ apiResp.body \in {<<>>, <<NilResponse>>}

\* the valid request on the server's writer, which refuses the body of a 204
C8_Witness ==
    /\ HeaderHandled
    /\ apiReq.slot = <<"1", "2", "3">>
    /\ apiReq.pubkey = Hex(PubkeyHexLen)
    /\ apiReq.parentHash = Hex(HashHexLen)
    /\ apiReq.writer = "server"
    /\ apiResp.status = StatusNoContent

(* C9: get-payload answers 400 with the decoder's message when the body     *)
(* does not decode, 400 invalid signature when it decodes and the signature *)
(* is not 96 bytes long, and 200 with an empty body otherwise; a body that  *)
(* does not decode is never answered invalid signature.                     *)
C9_GetPayload ==
    apiReq.ep = "getPayload" =>
        LET decodes == apiReq.body.kind = "block"
            sigOK   == apiReq.body.signatureLen = SignatureLen
        IN  /\ ~decodes =>
                  /\ apiResp.status = StatusBadRequest
                  /\ apiResp.body = <<DecodeBlock(apiReq.body).err>>
                  /\ apiResp.body # <<ErrInvalidSignature>>
            /\ (decodes /\ ~sigOK) => IsError(apiResp, StatusBadRequest, ErrInvalidSignature)
            /\ (decodes /\ sigOK) => (apiResp.status = StatusOK /\ apiResp.body = <<>>)

\* the block with a signature of 95 bytes
C9_Witness ==
    /\ apiReq.ep = "getPayload"
    /\ apiReq.body.kind = "block"
    /\ apiReq.body.signatureLen = SignatureLen - 1
    /\ IsError(apiResp, StatusBadRequest, ErrInvalidSignature)

(* C10: a register request whose body does not decode as an array of        *)
(* registrations is answered 400 with the decoder's message, in the step    *)
(* that decodes it; serving it calls neither IsKnownValidator nor           *)
(* UpdateValidatorRegistration and leaves the stored registrations as they  *)
(* were.                                                                    *)
C10_DecodeFailure ==
    [][ \A h \in Handlers :
          ( /\ reg'[h] # reg[h]
            /\ reg'[h].pc # "idle"
            /\ DecodeRegistrations(reg'[h].body).err # "nil" ) =>
              /\ reg'[h].pc = "done"
              /\ reg'[h].resp = RespondError(StatusBadRequest,
                                             DecodeRegistrations(reg'[h].body).err,
                                             "registerValidator")
              /\ reg'[h].calls = <<>>
              /\ registrations' = registrations
              /\ knownValidators' = knownValidators ]_vars

\* a body that breaks off after a valid registration of a known key
C10_Witness ==
    \E h \in Handlers :
        LET r == reg[h] IN
        /\ Answered(r)
        /\ r.body.kind = "truncated"
        /\ Len(r.payload) = 1
        /\ WellFormed(r.payload[1]) /\ r.payload[1].sig = "good"
        /\ r.payload[1].key \in knownValidators
        /\ r.resp.status = StatusBadRequest
        /\ r.calls = <<>>

(* C11: Start makes the service ready exactly when its first, synchronous   *)
(* RefreshKnownValidators succeeds, a success with zero validators          *)
(* included; when that call fails Start returns the error, the service is   *)
(* not ready and no background task exists or has refreshed.                *)
C11_ReadyIffFirstRefreshSucceeds ==
    [][ /\ (started = "no" /\ started' # "no") =>
              /\ (started' = "ok" <=> lastRefresh' = "ok")
              /\ (started' = "ok" => bg' = "waiting")
        /\ (started' # "ok" => bg' = "none" /\ bgRefreshes' = 0) ]_vars

\* Start has returned nil on a refresh that found no validator, the task waits
C11_Witness ==
    /\ started = "ok" /\ lastRefresh = "ok" /\ knownValidators = {}
    /\ bg = "waiting" /\ bgRefreshes = 0 /\ ticks = 0

(* C12, as stated: once the context is cancelled the background task starts *)
(* no further RefreshKnownValidators call, and it terminates.               *)
C12_NoRefreshOnceCancelled ==
    /\ [][ ctxDone => bgRefreshes' = bgRefreshes ]_vars
    /\ ((ctxDone /\ bg # "none") ~> (bg = "exited"))

(* C12, amended: once the context is cancelled the background task          *)
(* terminates; a cancellation that reaches the task while it waits and no   *)
(* tick has been delivered to it makes it exit without starting a refresh,  *)
(* whatever tick follows; only a tick delivered ahead of the cancellation   *)
(* is still answered with a refresh.                                        *)
C12_CancelledWaitExitsWithoutRefresh ==
    /\ [][ /\ (~ctxDone /\ ctxDone' /\ bg = "waiting" /\ ~tickPending) => sel' = "done"
           /\ (sel = "done" => sel' = "done" /\ bgRefreshes' = bgRefreshes)
           /\ (ctxDone /\ bgRefreshes' # bgRefreshes) => (tickPending /\ sel = "tick") ]_vars
    /\ ((ctxDone /\ bg # "none") ~> (bg = "exited"))

\* cancelled while waiting, a tick came afterwards, the task has exited
\* without a refresh
C12_Witness ==
    /\ started = "ok" /\ ctxDone /\ sel = "done" /\ tickPending
    /\ bg = "exited" /\ bgRefreshes = 0

\* the set the refresh in flight puts in place
NewSet == IF bgFetched.err = "nil" THEN bgFetched.validators ELSE knownPrior

(* C13: a membership check made while a background refresh is in progress   *)
(* is evaluated against the complete set cached before the refresh or the   *)
(* complete set the refresh fetched, never a mix of the two, and its answer *)
(* is membership in that set.                                               *)
C13_ReadSeesPriorOrNewSet ==
    [][ \A h \in Handlers :
          (bg = "refreshing" /\ reg[h].pc = "loop" /\ reg'[h].i = reg[h].i + 1) =>
              LET seen == reg'[h].knownAt[Len(reg'[h].knownAt)]
                  r    == reg[h].payload[reg[h].i]
              IN  /\ seen \in {knownPrior, NewSet}
                  /\ \A n \in DOMAIN reg'[h].calls :
                        (n > Len(reg[h].calls) /\ reg'[h].calls[n].op = "IsKnownValidator")
                            => (reg'[h].calls[n].res = "true" <=> r.key \in seen) ]_vars

\* the refresh in flight has put its set in place and has not returned; the
\* first entry of a batch was answered from the prior set, the second from
\* the new one
C13_Witness ==
    /\ bg = "refreshing" /\ bgFetched.installed /\ bgFetched.err = "nil"
    /\ bgFetched.validators # knownPrior
    /\ \E h \in Handlers :
          LET r == reg[h] IN
          /\ Len(r.knownAt) = 2
          /\ r.knownAt[1] = knownPrior /\ r.knownAt[2] = bgFetched.validators
          /\ \E n \in DOMAIN r.calls :
                r.calls[n].op = "IsKnownValidator" /\ r.calls[n].idx = 2

\* entry j of the request of handler h had its turn and passed every check
Submitted(h, j) == j <= Len(reg[h].knownAt) /\ ValidEntry(reg[h], j)

\* the datastore accepted the upsert of entry j
Applied(h, j) ==
    \E n \in CallsOf(reg[h], "UpdateValidatorRegistration", j) : reg[h].calls[n].res = "nil"

ValidAuthority(in) == in.host # "bad host" /\ in.port # "port"

(* C15: for an identity string without an http or https scheme,             *)
(* NewBuilderEntry returns and does not crash; it succeeds, with the        *)
(* address http://host[:port] and the decoded public key, exactly when the  *)
(* remainder is a valid authority whose credential decodes to 48 bytes, and *)
(* returns an error otherwise.                                              *)
C15_NewBuilderEntry ==
    (call.fn = "NewBuilderEntry" /\ call.in.scheme = "") =>
        /\ ret.kind = "returned"
        /\ IF ValidAuthority(call.in) /\ call.in.cred = "hex48"
           THEN /\ ret.err = "nil"
                /\ ret.val # Nil
                /\ ret.val.Pubkey = PubkeyLen
           ELSE ret.err # "nil"

(* C16: NewProposerAPI returns an API component exactly when it returns no  *)
(* error; without a datastore, or with a fork version that yields no        *)
(* signing domain, it returns an error and no component.                    *)
C16_ComponentIffNoError ==
    call.fn = "NewProposerAPI" =>
        /\ ret.kind = "returned"
        /\ (ret.val # Nil <=> ret.err = "nil")
        /\ (call.in.ds = Nil => ret.err # "nil" /\ ret.val = Nil)
        /\ (ComputerBuilderSigningDomain(call.in.genesisForkVersionHex).err # "nil"
                => ret.err # "nil" /\ ret.val = Nil)

SupportedNetworks ==
    {EthNetworkKiln, EthNetworkRopsten, EthNetworkSepolia, EthNetworkGoerliShadowFork5}

(* C17: NewEthNetworkDetails returns an unknown-network error and no value  *)
(* for a name outside kiln, ropsten, sepolia, goerli-shadow-fork-5; for     *)
(* each of these it returns, without error, details of that name with the   *)
(* genesis fork version, the genesis validators root and the Bellatrix fork *)
(* version all set; it never returns details with an unset field and no     *)
(* error.                                                                   *)
C17_NewEthNetworkDetails ==
    call.fn = "NewEthNetworkDetails" =>
        /\ ret.kind = "returned"
        /\ IF call.in \in SupportedNetworks
           THEN /\ ret.err = "nil"
                /\ ret.val # Nil
                /\ ret.val.Name = call.in
                /\ ret.val.GenesisForkVersionHex # ""
                /\ ret.val.GenesisValidatorsRootHex # ""
                /\ ret.val.BellatrixForkVersionHex # ""
           ELSE /\ ret.val = Nil
                /\ ret.err = <<"unknown network: ", call.in>>

\* a name that differs from a supported one by its case only is refused
C17_Witness ==
    /\ call.fn = "NewEthNetworkDetails" /\ call.in = "Kiln"
    /\ ret.kind = "returned" /\ ret.val = Nil
    /\ ret.err = <<"unknown network: ", "Kiln">>

(* C18: no register request is handled, and so no membership check is made, *)
(* before the first refresh of Start has succeeded: the API is not served   *)
(* until then.                                                              *)
C18_NoMembershipCheckBeforeReady ==
    /\ serving => started = "ok"
    /\ \A h \in Handlers :
          (reg[h].pc # "idle" \/ reg[h].calls # <<>>) =>
              (started = "ok" /\ lastRefresh # "none")

\* a membership check answered from the set of the startup refresh, ahead of
\* any background refresh
C18_Witness ==
    /\ started = "ok" /\ serving /\ bgRefreshes = 0 /\ lastRefresh = "ok"
    /\ \E h \in Handlers :
          /\ reg[h].pc = "loop"
          /\ \E n \in DOMAIN reg[h].calls :
                /\ reg[h].calls[n].op = "IsKnownValidator"
                /\ reg[h].calls[n].res = "true"
                /\ reg[h].payload[reg[h].calls[n].idx].key \in knownValidators

(* C19: every request to register, get-header or get-payload, valid or not, *)
(* adds one to its request counter, every entry of a register batch that    *)
(* the loop handles, saved or skipped, adds one to the registrations        *)
(* counter, and no counter ever decreases.                                  *)
C19_RequestsCounted ==
    [][ /\ \A h \in Handlers :
              (reg[h].pc = "idle" /\ reg'[h].pc # "idle") =>
                  stats'.NumRegisterValidatorRequests > stats.NumRegisterValidatorRequests
        /\ \A h \in Handlers :
              (reg[h].pc = "loop" /\ reg'[h].i = reg[h].i + 1) =>
                  stats'.ValidatorRegistrationsTotal > stats.ValidatorRegistrationsTotal
        /\ (apiReq' # apiReq /\ apiReq'.ep = "getHeader") =>
              stats'.NumGetHeaderRequests > stats.NumGetHeaderRequests
        /\ (apiReq' # apiReq /\ apiReq'.ep = "getPayload") =>
              stats'.NumGetPayloadRequests > stats.NumGetPayloadRequests
        /\ \A c \in DOMAIN stats : stats'[c] >= stats[c] ]_vars

(* C20: once Stop has been called on a started API, no further              *)
(* RefreshKnownValidators call is made, and the background task terminates. *)
C20_StopEndsRefreshing ==
    /\ [][ (stopped /\ started = "ok") => bgRefreshes' = bgRefreshes ]_vars
    /\ ((stopped /\ started = "ok") ~> (bg = "exited"))
====
